---- MODULE Spec2Model ----
(***************************************************************************)
(* Airman telemetry transmitters: the Level-1 XOR-checksummed frame        *)
(* source, the Level-2 AHRS transmitter (Madgwick-style quaternion filter, *)
(* CRC16-CCITT frames) and the line-oriented receiver contract.            *)
(*                                                                         *)
(* Strings are sequences of byte values 0..255 (a C string is the bytes    *)
(* before its terminating NUL).                                            *)
(***************************************************************************)
EXTENDS Integers, Sequences, FiniteSets, TLC

VARIABLES
    charSigned, \* whether plain char is signed on the build (implementation-defined)
    mode,       \* checksum strategy under test: "XOR" (Level-1) or "CRC16" (Level-2)
    data,       \* the string handed to the checksum function
    pos,        \* bytes of data consumed by the checksum loop so far
    crc,        \* crc16_ccitt's register
    chk,        \* calculate_checksum's register
    line,       \* the bytes of the frame on the wire, newline included
    flipped,    \* <<>> or <<byte index, bit>>: the payload bit the channel flipped
    rx,         \* the receiver's verdicts, one per received line
    cpc,        \* position of the checksum/framing harness
    q0, q1, q2, q3, \* the filter's quaternion (file-scope statics)
    imu,        \* the current imu_sample_t
    dtArg,      \* the dt argument handed to madgwick_update
    t,          \* main's iteration counter
    pc,         \* position in the loop body
    prog,       \* the transmitter that runs: "L1" or "L2"
    tty,        \* stdout is a terminal (line buffered); otherwise fully buffered
    now,        \* the wall clock gettimeofday reads: <<tv_sec, tv_usec>>
    boot_time,  \* main's boot_time (Level-2)
    roll, pitch, yaw,      \* main's Euler angles in degrees (Level-2)
    altitude, temperature, \* main's altitude and temperature (alt, temp in Level-1)
    ts,         \* main's ts (Level-2)
    payload,    \* main's payload buffer, as a string
    frame,      \* main's frame buffer, as a string (Level-1)
    obuf,       \* bytes held in stdout's stdio buffer
    wire,       \* bytes stdout has written to its file descriptor
    sink,       \* what a write(2) on stdout's descriptor meets: "open", "epipe", "error"
    sigpipe,    \* the disposition of SIGPIPE the process inherited: "default", "ignored"
    wfailed     \* a write(2) on stdout's descriptor has failed

chkVars == <<charSigned, mode, data, pos, crc, chk, line, flipped, rx, cpc>>

ahrsVars == <<q0, q1, q2, q3, imu, dtArg, t, pc>>

txVars == <<prog, tty, sink, sigpipe, wfailed, now, boot_time, roll, pitch, yaw, altitude, temperature, ts, payload, frame, obuf, wire>>

vars == <<chkVars, ahrsVars, txVars>>

(***************************************************************************)
(* C integer operators                                                     *)
(***************************************************************************)

\* 2^n
RECURSIVE Pow2(_)
Pow2(n) == IF n = 0 THEN 1 ELSE 2 * Pow2(n - 1)

\* a ^ b of C on non-negative ints
RECURSIVE BitXor(_, _)
BitXor(a, b) ==
    IF a = 0 THEN b
    ELSE IF b = 0 THEN a
    ELSE ((a + b) % 2) + 2 * BitXor(a \div 2, b \div 2)

\* a & mask != 0 for a one-bit mask 2^k
BitSet(a, k) == (a \div Pow2(k)) % 2 = 1

\* the value of *p read through a char pointer: the stored byte, sign-extended
\* where plain char is signed
CharValue(b, signed) == IF signed /\ b >= 128 THEN b - 256 ELSE b

\* (unsigned short)c
ToUShort(c) == c % 65536

\* (unsigned char)c
ToUChar(c) == c % 256

(***************************************************************************)
(* Checksums                                                               *)
(***************************************************************************)

\* crc16_round as it would be with the register held in an unsigned int
crc16_round_wide(reg) ==
    IF BitSet(reg, 15) THEN BitXor(reg * 2, 4129) ELSE reg * 2

\* one round of crc16_ccitt's inner loop
crc16_round(reg) ==
    IF BitSet(reg, 15)
    THEN ToUShort(BitXor(reg * 2, 4129))   \* crc = (crc << 1) ^ 0x1021
    ELSE ToUShort(reg * 2)                 \* crc <<= 1

\* for (int i = 0; i < 8; i++) ...
\* (reg >= 0 always holds; testing it makes TLC evaluate the register of one
\* iteration before it enters the next)
RECURSIVE crc16_rounds(_, _)
crc16_rounds(reg, i) ==
    IF reg >= 0 /\ i < 8 THEN crc16_rounds(crc16_round(reg), i + 1) ELSE reg

\* the body of crc16_ccitt's while loop for the stored byte b
crc16_byte(reg, b, signed) ==
    crc16_rounds(ToUShort(BitXor(reg, ToUShort(CharValue(b, signed)) * 256)), 0)

\* the register after the while loop has consumed s[lo..hi], reg before it;
\* the range is walked left to right, in two halves to keep evaluation shallow
RECURSIVE crc16_from(_, _, _, _, _)
crc16_from(reg, s, lo, hi, signed) ==
    IF reg >= 0 /\ lo < hi
    THEN crc16_from(crc16_from(reg, s, lo, (lo + hi) \div 2, signed), s, (lo + hi) \div 2 + 1, hi, signed)
    ELSE IF lo = hi THEN crc16_byte(reg, s[lo], signed)
    ELSE reg

\* unsigned short crc16_ccitt(const char *data)
crc16_ccitt(s, signed) == crc16_from(65535, s, 1, Len(s), signed)

\* checksum_byte with the byte masked to 7-bit ASCII before it is folded in
checksum_byte_ascii7(reg, b, signed) == ToUChar(BitXor(reg, ToUChar(CharValue(b, signed)) % 128))

\* checksum_byte with the byte added instead of XORed
checksum_byte_sum(reg, b, signed) == ToUChar(reg + ToUChar(CharValue(b, signed)))

\* checksum_byte with the register rotated left by one bit before the XOR
checksum_byte_rotate(reg, b, signed) ==
    ToUChar(BitXor(((reg * 2) % 256) + (reg \div 128), ToUChar(CharValue(b, signed))))

\* the body of calculate_checksum's while loop
checksum_byte(reg, b, signed) == ToUChar(BitXor(reg, ToUChar(CharValue(b, signed))))

\* the register after the while loop has consumed s[lo..hi], reg before it
RECURSIVE checksum_from(_, _, _, _, _)
checksum_from(reg, s, lo, hi, signed) ==
    IF reg >= 0 /\ lo < hi
    THEN checksum_from(checksum_from(reg, s, lo, (lo + hi) \div 2, signed), s, (lo + hi) \div 2 + 1, hi, signed)
    ELSE IF lo = hi THEN checksum_byte(reg, s[lo], signed)
    ELSE reg

\* unsigned char calculate_checksum(const char *buf)
calculate_checksum(s, signed) == checksum_from(0, s, 1, Len(s), signed)

(***************************************************************************)
(* IEEE 754 binary32 arithmetic (C float, each operation rounded to         *)
(* nearest-even, no contraction).  A float is [k, s, m, e]: k is "fin",     *)
(* "inf" or "nan", s the sign bit, and a finite value is                    *)
(* (-1)^s * m * 2^e with 2^23 <= m < 2^24 and -149 <= e <= 104 (normal),    *)
(* or m < 2^23 and e = -149 (subnormal or zero).  Every intermediate        *)
(* integer stays below 2^31.                                                *)
(***************************************************************************)

Fin(s, m, e) == [k |-> "fin", s |-> s, m |-> m, e |-> e]

Zero(s) == Fin(s, 0, -149)

Inf(s) == [k |-> "inf", s |-> s, m |-> 0, e |-> 0]

\* the NaN an invalid operation produces (sign bit set, as SSE does); an
\* operation on a NaN returns its first NaN operand, sign included
NaN == [k |-> "nan", s |-> 1, m |-> 0, e |-> 0]

IsZero(x) == x.k = "fin" /\ x.m = 0

\* number of bits of n >= 0
RECURSIVE BitLen(_)
BitLen(n) == IF n = 0 THEN 0 ELSE 1 + BitLen(n \div 2)

\* 2^n, for shifts that may exceed the integer width: 2^30 stands in beyond it
\* and is used only where the shifted value is below 2^30
Shift2(n) == IF n >= 30 THEN Pow2(30) ELSE Pow2(n)

\* the float nearest to (M + f) * 2^E, where 0 <= f < 1 and sticky says f > 0;
\* M < 2^30, and M has at least 25 bits whenever sticky holds
RoundPack(s, M, E, sticky) ==
    IF M = 0 THEN Zero(s)
    ELSE
    LET n == BitLen(M)
        e0 == IF E + n - 24 < -149 THEN -149 ELSE E + n - 24
        sh == e0 - E
    IN IF sh <= 0
       THEN (IF e0 > 104 THEN Inf(s) ELSE Fin(s, M * Pow2(-sh), e0))
       ELSE
       LET q    == IF sh > 30 THEN 0 ELSE M \div Pow2(sh)
           r    == IF sh > 30 THEN M ELSE M % Pow2(sh)
           half == Shift2(sh - 1)
           up   == IF sh > 31 THEN FALSE
                   ELSE \/ r > half
                        \/ r = half /\ (sticky \/ q % 2 = 1)
           m1   == IF up THEN q + 1 ELSE q
           m2   == IF m1 = 16777216 THEN 8388608 ELSE m1
           e2   == IF m1 = 16777216 THEN e0 + 1 ELSE e0
       IN IF e2 > 104 THEN Inf(s) ELSE Fin(s, m2, e2)

\* <<m, e>> of a finite non-zero float with the mantissa brought to 24 bits
Normalized(x) ==
    LET k == 24 - BitLen(x.m) IN <<x.m * Pow2(k), x.e - k>>

FNeg(x) == [x EXCEPT !.s = 1 - x.s]

\* a * b
FMul(a, b) ==
    IF a.k = "nan" THEN a
    ELSE IF b.k = "nan" THEN b
    ELSE IF (a.k = "inf" /\ IsZero(b)) \/ (b.k = "inf" /\ IsZero(a)) THEN NaN
    ELSE IF a.k = "inf" \/ b.k = "inf" THEN Inf((a.s + b.s) % 2)
    ELSE IF a.m = 0 \/ b.m = 0 THEN Zero((a.s + b.s) % 2)
    ELSE
    LET x  == Normalized(a)
        y  == Normalized(b)
        a1 == x[1] \div 4096
        a0 == x[1] % 4096
        b1 == y[1] \div 4096
        b0 == y[1] % 4096
        mid == a1 * b0 + a0 * b1
        L  == a0 * b0 + (mid % 4096) * 4096
        H  == a1 * b1 + (mid \div 4096) + (L \div 16777216)
        Lr == L % 16777216
    IN RoundPack((a.s + b.s) % 2, H * 4 + (Lr \div 4194304), x[2] + y[2] + 22,
                 Lr % 4194304 # 0)

\* a + b for finite non-zero a, b with a.e >= b.e: three guard bits, the bits
\* shifted out of the smaller operand kept as a sticky last bit
AddAligned(a, b) ==
    LET d  == a.e - b.e
        A  == a.m * 8
        B0 == IF d >= 27 THEN 0 ELSE (b.m * 8) \div Pow2(d)
        lost == IF d >= 27 THEN TRUE ELSE (b.m * 8) % Pow2(d) # 0
        B  == IF lost /\ B0 % 2 = 0 THEN B0 + 1 ELSE B0
    IN IF a.s = b.s THEN RoundPack(a.s, A + B, a.e - 3, FALSE)
       ELSE IF A = B THEN Zero(0)
       ELSE IF A > B THEN RoundPack(a.s, A - B, a.e - 3, FALSE)
       ELSE RoundPack(b.s, B - A, a.e - 3, FALSE)

\* a + b
FAdd(a, b) ==
    IF a.k = "nan" THEN a
    ELSE IF b.k = "nan" THEN b
    ELSE IF a.k = "inf" /\ b.k = "inf" THEN (IF a.s = b.s THEN a ELSE NaN)
    ELSE IF a.k = "inf" THEN a
    ELSE IF b.k = "inf" THEN b
    ELSE IF a.m = 0 /\ b.m = 0 THEN Zero(IF a.s = 1 /\ b.s = 1 THEN 1 ELSE 0)
    ELSE IF a.m = 0 THEN b
    ELSE IF b.m = 0 THEN a
    ELSE IF a.e >= b.e THEN AddAligned(a, b) ELSE AddAligned(b, a)

\* a - b
FSub(a, b) == IF a.k = "nan" THEN a ELSE IF b.k = "nan" THEN b ELSE FAdd(a, FNeg(b))

\* the quotient digits of r / d in base 2^bits, r < d < 2^24: <<digit, remainder>>
DivStep(r, d, bits) == <<(r * Pow2(bits)) \div d, (r * Pow2(bits)) % d>>

\* a / b
FDiv(a, b) ==
    IF a.k = "nan" THEN a
    ELSE IF b.k = "nan" THEN b
    ELSE IF a.k = "inf" /\ b.k = "inf" THEN NaN
    ELSE IF a.k = "inf" THEN Inf((a.s + b.s) % 2)
    ELSE IF b.k = "inf" THEN Zero((a.s + b.s) % 2)
    ELSE IF a.m = 0 /\ b.m = 0 THEN NaN
    ELSE IF b.m = 0 THEN Inf((a.s + b.s) % 2)
    ELSE IF a.m = 0 THEN Zero((a.s + b.s) % 2)
    ELSE
    LET x  == Normalized(a)
        y  == Normalized(b)
        d0 == x[1] \div y[1]
        s1 == DivStep(x[1] % y[1], y[1], 7)
        s2 == DivStep(s1[2], y[1], 7)
        s3 == DivStep(s2[2], y[1], 6)
        s4 == DivStep(s3[2], y[1], 6)
        Q  == (((d0 * 128 + s1[1]) * 128 + s2[1]) * 64 + s3[1]) * 64 + s4[1]
    IN RoundPack((a.s + b.s) % 2, Q, x[2] - y[2] - 26, s4[2] # 0)

\* the integer square root of N * 4^zeros by the digit-by-digit method, the
\* radicand N taken two bits at a time from pair index i down: <<root, remainder>>
RECURSIVE SqrtDigits(_, _, _, _, _)
SqrtDigits(N, i, zeros, root, rem) ==
    IF root >= 0 /\ rem >= 0 /\ (i >= 0 \/ zeros > 0)
    THEN LET pair  == IF i >= 0 THEN (N \div Pow2(2 * i)) % 4 ELSE 0
             r4    == rem * 4 + pair
             trial == root * 4 + 1
         IN IF r4 >= trial
            THEN SqrtDigits(N, i - 1, IF i >= 0 THEN zeros ELSE zeros - 1,
                            root * 2 + 1, r4 - trial)
            ELSE SqrtDigits(N, i - 1, IF i >= 0 THEN zeros ELSE zeros - 1,
                            root * 2, r4)
    ELSE <<root, rem>>

\* sqrtf(a)
FSqrt(a) ==
    IF a.k = "nan" THEN a
    ELSE IF IsZero(a) THEN a
    ELSE IF a.s = 1 THEN NaN
    ELSE IF a.k = "inf" THEN a
    ELSE
    LET x  == Normalized(a)
        N  == IF x[2] % 2 = 0 THEN x[1] ELSE x[1] * 2
        e  == IF x[2] % 2 = 0 THEN x[2] ELSE x[2] - 1
        rt == SqrtDigits(N, 12, 14, 0, 0)
    IN RoundPack(0, rt[1], (e \div 2) - 14, rt[2] # 0)

\* a == b of C
FEq(a, b) ==
    IF a.k = "nan" \/ b.k = "nan" THEN FALSE
    ELSE IF IsZero(a) /\ IsZero(b) THEN TRUE
    ELSE a = b

\* (float)n for an int n
FromInt(n) ==
    LET a == IF n < 0 THEN -n ELSE n
        s == IF n < 0 THEN 1 ELSE 0
    IN IF a < 1073741824 THEN RoundPack(s, a, 0, FALSE)
       ELSE RoundPack(s, a \div 2, 1, a % 2 = 1)

\* bits lo .. lo+len-1 (len <= 12) of the number whose base-4096 digits, least
\* significant first, are D
Bits12(D, lo, len) ==
    LET k == lo \div 12
        w == D[k + 1] + 4096 * (IF k + 2 <= Len(D) THEN D[k + 2] ELSE 0)
    IN (w \div Pow2(lo % 12)) % Pow2(len)

RECURSIVE Bits(_, _, _)
Bits(D, lo, len) ==
    IF len <= 12 THEN Bits12(D, lo, len)
    ELSE Bits12(D, lo, 12) + 4096 * Bits(D, lo + 12, len - 12)

\* the base-4096 digits of the sums raw[1], raw[2], ... weighted 4096^0, 4096^1, ...
RECURSIVE Carry(_, _, _)
Carry(raw, i, c) ==
    IF c >= 0 /\ i <= Len(raw)
    THEN <<(raw[i] + c) % 4096>> \o Carry(raw, i + 1, (raw[i] + c) \div 4096)
    ELSE <<>>

\* (float)((double)a * C) for the positive double C = (digits c base 4096) * 2^ce:
\* the exact product, rounded to 53 bits and then to binary32
FMulDouble(a, c, ce) ==
    IF a.k = "nan" THEN a
    ELSE IF a.k = "inf" THEN a
    ELSE IF a.m = 0 THEN a
    ELSE
    LET x   == Normalized(a)
        a0  == x[1] % 4096
        a1  == x[1] \div 4096
        raw == [j \in 1..7 |->
                  (IF j <= 5 THEN a0 * c[j] ELSE 0) + (IF j >= 2 /\ j <= 6 THEN a1 * c[j - 1] ELSE 0)]
        D   == Carry(raw, 1, 0)
        n   == 72 + BitLen(D[7])
        T   == Bits(D, n - 24, 24)
        U   == Bits(D, n - 53, 29)
        V   == Bits(D, 0, n - 53)
        hV  == Pow2(n - 54)
        up  == V > hV \/ (V = hV /\ U % 2 = 1)
        U1  == IF up THEN U + 1 ELSE U
        T2  == IF U1 = 536870912 THEN T + 1 ELSE T
        U2  == IF U1 = 536870912 THEN 0 ELSE U1
    IN RoundPack(a.s, T2 * 8 + (U2 \div 67108864), x[2] + ce + n - 27, U2 % 67108864 # 0)

\* static float deg2rad(float d) { return d * (M_PI / 180.0f); }
\* variant: the rate is taken as radians, no conversion
deg2rad_identity(d) == d

deg2rad(d) == FMulDouble(d, <<3385, 1321, 1698, 3572, 17>>, -58)

\* static float rad2deg(float r) { return r * (180.0f / M_PI); }
rad2deg(r) == FMulDouble(r, <<504, 1596, 3098, 2653, 28>>, -47)

(***************************************************************************)
(* Orientation filter: madgwick_update integrates the gyroscope rates into *)
(* the quaternion and renormalises; every operation is a binary32 one, in  *)
(* the order the C expression grammar fixes                                *)
(***************************************************************************)

\* the literals 0.5f and 1.0f
Half == Fin(0, 8388608, -24)

\* variant: -1.0f
One_negative == Fin(1, 8388608, -23)

One == Fin(0, 8388608, -23)

LOOP_HZ == 20

\* (1.0f / LOOP_HZ)
LOOP_DT_SEC == FDiv(One, FromInt(LOOP_HZ))

\* x*x + y*y + z*z
SumSq3(x, y, z) == FAdd(FAdd(FMul(x, x), FMul(y, y)), FMul(z, z))

\* q0*q0 + q1*q1 + q2*q2 + q3*q3
SumSq4(Q) == FAdd(FAdd(FAdd(FMul(Q[1], Q[1]), FMul(Q[2], Q[2])), FMul(Q[3], Q[3])), FMul(Q[4], Q[4]))

inv_sqrt(x) == FDiv(One, FSqrt(x))

\* the norm checks: TRUE when madgwick_update returns early
ZeroNorm(s) ==
    \/ FEq(FSqrt(SumSq3(s.ax, s.ay, s.az)), Zero(0))
    \/ FEq(FSqrt(SumSq3(s.mx, s.my, s.mz)), Zero(0))

\* the four rates, from the quaternion at entry
QDot(Q, gx, gy, gz) ==
    << FMul(Half, FSub(FSub(FMul(FNeg(Q[2]), gx), FMul(Q[3], gy)), FMul(Q[4], gz))),
       FMul(Half, FSub(FAdd(FMul(Q[1], gx), FMul(Q[3], gz)), FMul(Q[4], gy))),
       FMul(Half, FAdd(FSub(FMul(Q[1], gy), FMul(Q[2], gz)), FMul(Q[4], gx))),
       FMul(Half, FSub(FAdd(FMul(Q[1], gz), FMul(Q[2], gy)), FMul(Q[3], gx))) >>

\* q += qDot * dt, component by component
Integrate(Q, D, dt) == [i \in 1..4 |-> FAdd(Q[i], FMul(D[i], dt))]

\* q *= inv_sqrt(q . q)
Renormalise(Q) == LET norm == inv_sqrt(SumSq4(Q)) IN [i \in 1..4 |-> FMul(Q[i], norm)]

\* variant: the update runs without the two norm checks
madgwick_update_unguarded(Q, s, dt) ==
    Renormalise(Integrate(Q, QDot(Q, deg2rad(s.gx), deg2rad(s.gy), deg2rad(s.gz)), dt))

\* variant: the x component of the normalised accelerometer vector is added to
\* the roll rate, as a correction term would
madgwick_update_accel_feedback(Q, s, dt) ==
    IF ZeroNorm(s) THEN Q
    ELSE LET norm == FSqrt(SumSq3(s.ax, s.ay, s.az))
         IN Renormalise(Integrate(Q, QDot(Q, FAdd(deg2rad(s.gx), FDiv(s.ax, norm)),
                                             deg2rad(s.gy), deg2rad(s.gz)), dt))

\* variant: a sample that fails a norm check puts the quaternion back to identity
madgwick_update_reset(Q, s, dt) ==
    IF ZeroNorm(s) THEN <<One, Zero(0), Zero(0), Zero(0)>>
    ELSE Renormalise(Integrate(Q, QDot(Q, deg2rad(s.gx), deg2rad(s.gy), deg2rad(s.gz)), dt))

\* the quaternion <<q0, q1, q2, q3>> madgwick_update leaves behind
madgwick_update(Q, s, dt) ==
    IF ZeroNorm(s) THEN Q
    ELSE Renormalise(Integrate(Q, QDot(Q, deg2rad(s.gx), deg2rad(s.gy), deg2rad(s.gz)), dt))

(***************************************************************************)
(* ahrs_get_euler.  atan2f and asinf belong to the C library; they are     *)
(* computed here by CORDIC on 2^-28 rad fixed point, accurate to about     *)
(* 1e-7 rad, and rounded to float.  Everything around them is binary32.    *)
(***************************************************************************)

Two == Fin(0, 8388608, -22)

\* atan(2^-i) for i = 0..27, in units of 2^-28 rad
AtanTable ==
    <<
       210828714, 124459457, 65760959, 33381290, 16755422, 8385879, 4193963,
       2097109, 1048571, 524287, 262144, 131072, 65536, 32768,
       16384, 8192, 4096, 2048, 1024, 512, 256,
       128, 64, 32, 16, 8, 4, 2 >>

\* pi and pi/2 in units of 2^-28 rad
PiFixed == 843314857

HalfPiFixed == 421657428

\* CORDIC vectoring from step i on; st = <<x, y, angle so far>>
RECURSIVE Cordic(_, _)
Cordic(st, i) ==
    IF st[1] >= 0 /\ i < 28
    THEN IF st[2] > 0
         THEN Cordic(<<st[1] + st[2] \div Pow2(i), st[2] - st[1] \div Pow2(i), st[3] + AtanTable[i + 1]>>, i + 1)
         ELSE Cordic(<<st[1] - st[2] \div Pow2(i), st[2] + st[1] \div Pow2(i), st[3] - AtanTable[i + 1]>>, i + 1)
    ELSE st[3]

\* a float of infinite magnitude counts as the largest finite one
Clamp(x) == IF x.k = "inf" THEN Fin(x.s, 16777215, 104) ELSE x

\* the angle of the point (|x|, |y|) in 0..pi/2, in units of 2^-28 rad
AngleFixed(y, x) ==
    IF y.m = 0 THEN 0
    ELSE IF x.m = 0 THEN HalfPiFixed
    ELSE LET ny == Normalized(y)
             nx == Normalized(x)
             E  == IF nx[2] > ny[2] THEN nx[2] ELSE ny[2]
             X  == IF E - nx[2] > 30 THEN 0 ELSE (nx[1] * 16) \div Pow2(E - nx[2])
             Y  == IF E - ny[2] > 30 THEN 0 ELSE (ny[1] * 16) \div Pow2(E - ny[2])
             a  == Cordic(<<X, Y, 0>>, 0)
         IN IF a < 0 THEN 0 ELSE IF a > HalfPiFixed THEN HalfPiFixed ELSE a

atan2f(y, x) ==
    IF y.k = "nan" THEN y
    ELSE IF x.k = "nan" THEN x
    ELSE LET a == AngleFixed(Clamp(y), Clamp(x))
         IN RoundPack(y.s, IF x.s = 1 THEN PiFixed - a ELSE a, -28, FALSE)

\* asinf(v) as the angle of the point (sqrt((1 - v)(1 + v)), v); NaN outside [-1, 1]
asinf(v) ==
    IF v.k = "nan" THEN v
    ELSE IF v.k = "inf" THEN FNeg(NaN)
    ELSE LET c == FMul(FSub(One, v), FAdd(One, v))
         IN IF c.k = "fin" /\ c.s = 1 /\ c.m # 0 THEN FNeg(NaN)
            ELSE atan2f(v, FSqrt(c))

\* <<roll, pitch, yaw>> in degrees of the quaternion Q
ahrs_get_euler(Q) ==
    << rad2deg(atan2f(FMul(Two, FAdd(FMul(Q[1], Q[2]), FMul(Q[3], Q[4]))),
                      FSub(One, FMul(Two, FAdd(FMul(Q[2], Q[2]), FMul(Q[3], Q[3])))))),
       rad2deg(asinf(FMul(Two, FSub(FMul(Q[1], Q[3]), FMul(Q[4], Q[2]))))),
       rad2deg(atan2f(FMul(Two, FAdd(FMul(Q[1], Q[4]), FMul(Q[2], Q[3]))),
                      FSub(One, FMul(Two, FAdd(FMul(Q[3], Q[3]), FMul(Q[4], Q[4])))))) >>

\* an imu_sample_t from its three vectors
Sample(a, g, m) ==
    [ax |-> a[1], ay |-> a[2], az |-> a[3],
     gx |-> g[1], gy |-> g[2], gz |-> g[3],
     mx |-> m[1], my |-> m[2], mz |-> m[3]]

\* float values of the literals used as inputs
F981 == Fin(0, 10286531, -20)

F03 == Fin(0, 10066330, -25)

F05 == Fin(0, 8388608, -24)

F10 == Fin(0, 10485760, -20)

F2 == Fin(0, 8388608, -22)

F15 == Fin(0, 12582912, -23)

F12 == Fin(0, 12582912, -20)

F90 == Fin(0, 11796480, -17)

F45 == Fin(0, 11796480, -18)

F300 == Fin(0, 9830400, -15)

F100 == Fin(0, 13107200, -17)

F005 == Fin(0, 13421773, -28)

F30 == Fin(0, 15728640, -19)

F1e30 == Fin(0, 13234890, 76)

F06 == Fin(0, 10066330, -24)

F9 == Fin(0, 9437184, -20)

F028 == Fin(0, 9395241, -25)

F002 == Fin(0, 10737418, -29)

F052 == Fin(0, 8724152, -24)

\* 1e-30f: its square is below the smallest float and rounds to zero
F1em30 == Fin(0, 10633824, -123)

ZeroSample == Sample(<<Zero(0), Zero(0), Zero(0)>>, <<Zero(0), Zero(0), Zero(0)>>, <<Zero(0), Zero(0), Zero(0)>>)

(***************************************************************************)
(* Frame encoding                                                          *)
(***************************************************************************)

\* the character printf writes for one hexadecimal digit under %X
\* variant: lower-case digits, as %x prints them
HexChar_lower(d) == IF d < 10 THEN 48 + d ELSE 87 + d

HexChar(d) == IF d < 10 THEN 48 + d ELSE 55 + d

RECURSIVE HexDigits(_)
HexDigits(v) == IF v < 16 THEN <<HexChar(v)>> ELSE Append(HexDigits(v \div 16), HexChar(v % 16))

RECURSIVE ZeroPad(_, _)
ZeroPad(s, width) == IF Len(s) >= width THEN s ELSE ZeroPad(<<48>> \o s, width)

RECURSIVE DecDigits(_)
DecDigits(v) == IF v < 10 THEN <<48 + v>> ELSE Append(DecDigits(v \div 10), 48 + (v % 10))

\* FormatHex with the conversion written %0<width>d
FormatHex_decimal(v, width) == ZeroPad(DecDigits(v), width)

\* printf's %0<width>X conversion of a non-negative int
FormatHex(v, width) == ZeroPad(HexDigits(v), width)

\* the decimal digits of n >= 0 as digit values, most significant first
RECURSIVE DigitVals(_)
DigitVals(n) == IF n < 10 THEN <<n>> ELSE Append(DigitVals(n \div 10), n % 10)

\* the digits of twice the number whose digits are ds
DoubleDigits(ds) ==
    LET n == Len(ds)
        carry(i) == IF i < n /\ ds[i + 1] >= 5 THEN 1 ELSE 0
        body == [i \in 1..n |-> (2 * ds[i] + carry(i)) % 10]
    IN IF ds[1] >= 5 THEN <<1>> \o body ELSE body

\* the digits of 2^e times the number whose digits are ds
RECURSIVE TimesPow2(_, _)
TimesPow2(ds, e) ==
    IF Len(ds) > 0 /\ e > 1 THEN TimesPow2(TimesPow2(ds, e \div 2), e - e \div 2)
    ELSE IF e = 1 THEN DoubleDigits(ds)
    ELSE ds

\* the digits of one more than the number whose digits are ds
IncDigits(ds) ==
    LET n == Len(ds)
        nines == {k \in 0..n : \A i \in (n - k + 1)..n : ds[i] = 9}
        k == CHOOSE k \in nines : \A j \in nines : j <= k
    IN IF k = n THEN <<1>> \o [i \in 1..n |-> 0]
       ELSE [i \in 1..n |-> IF i < n - k THEN ds[i] ELSE IF i = n - k THEN ds[i] + 1 ELSE 0]

\* the digits of half the number whose digits are ds, one more decimal kept
HalveDigits(ds) ==
    LET n == Len(ds)
    IN [i \in 1..(n + 1) |->
          IF i = 1 THEN ds[1] \div 2
          ELSE IF i <= n THEN (ds[i] + 10 * (ds[i - 1] % 2)) \div 2
          ELSE 5 * (ds[n] % 2)]

\* the digits of the number whose digits are ds, divided by 2^k
RECURSIVE DivPow2(_, _)
DivPow2(ds, k) ==
    IF Len(ds) > 0 /\ k > 1 THEN DivPow2(DivPow2(ds, k \div 2), k - k \div 2)
    ELSE IF k = 1 THEN HalveDigits(ds)
    ELSE ds

\* ds without its leading zeros, the last digit always kept
RECURSIVE StripZeros(_)
StripZeros(ds) == IF Len(ds) > 1 /\ ds[1] = 0 THEN StripZeros(Tail(ds)) ELSE ds

\* printf's %.<p>f of a float (promoted to double without change of value):
\* the exact decimal expansion of m * 2^e rounded to p decimals, ties to even
FormatFixed(x, p) ==
    IF x.k = "nan" THEN (IF x.s = 1 THEN <<45>> ELSE <<>>) \o <<110, 97, 110>>
    ELSE IF x.k = "inf" THEN (IF x.s = 1 THEN <<45>> ELSE <<>>) \o <<105, 110, 102>>
    ELSE
    LET md == DigitVals(x.m)
        k == IF x.e < 0 THEN -x.e ELSE 0
        exact == IF x.e >= 0 THEN TimesPow2(md, x.e) ELSE DivPow2(md, k)
        w == Len(exact) - k
        keep == w + p
        kept == [i \in 1..keep |-> IF i <= Len(exact) THEN exact[i] ELSE 0]
        tail == [i \in 1..(Len(exact) - keep) |-> exact[keep + i]]
        up == /\ Len(exact) > keep
              /\ \/ tail[1] > 5
                 \/ /\ tail[1] = 5
                    /\ \/ \E i \in 2..Len(tail) : tail[i] # 0
                       \/ kept[keep] % 2 = 1
        out == IF up THEN IncDigits(kept) ELSE kept
        n == Len(out)
        whole == StripZeros([i \in 1..(n - p) |-> out[i]])
    IN (IF x.s = 1 THEN <<45>> ELSE <<>>)
         \o [i \in 1..Len(whole) |-> 48 + whole[i]]
         \o (IF p > 0 THEN <<46>> ELSE <<>>)
         \o [i \in 1..p |-> 48 + out[n - p + i]]

\* printf's %d and %lld
FormatInt(n) == IF n < 0 THEN <<45>> \o DecDigits(-n) ELSE DecDigits(n)

\* printf("$%s*%04X\n", payload, crc)
FrameL2(body, c) == <<36>> \o body \o <<42>> \o FormatHex(c, 4) \o <<10>>

\* sprintf(frame, "$%s*%02X", payload, chk); printf("%s\n", frame)
FrameL1(body, c) == (<<36>> \o body \o <<42>> \o FormatHex(c, 2)) \o <<10>>

(***************************************************************************)
(* Time base, payload assembly and stdout                                   *)
(***************************************************************************)

\* a / b of C on long long: the quotient truncated toward zero
TruncDiv(a, b) == IF a >= 0 THEN a \div b ELSE -((-a) \div b)

\* millis_since(start), the clock reading tv
millis_since(start, tv) == (tv[1] - start[1]) * 1000 + TruncDiv(tv[2] - start[2], 1000)

\* the clock us microseconds later
ClockAfter(tv, us) == <<tv[1] + (tv[2] + us) \div 1000000, (tv[2] + us) % 1000000>>

\* variant: the terminating NUL is taken as a byte of the string
Truncate_counts_nul(s, size) == IF Len(s) < size THEN s \o <<0>> ELSE SubSeq(s, 1, size)

\* what snprintf(buf, size, ...) stores of the formatted string s
Truncate(s, size) == IF Len(s) < size THEN s ELSE SubSeq(s, 1, size - 1)

\* variant: yaw is printed ahead of roll
L2Payload_yaw_first(stamp, r, p, y, alt, temp) ==
    Truncate(<<76, 50, 44>> \o FormatInt(stamp)
               \o <<44>> \o FormatFixed(y, 2)
               \o <<44>> \o FormatFixed(p, 2)
               \o <<44>> \o FormatFixed(r, 2)
               \o <<44>> \o FormatFixed(alt, 2)
               \o <<44>> \o FormatFixed(temp, 2), 200)

\* snprintf(payload, sizeof(payload), "L2,%lld,%.2f,%.2f,%.2f,%.2f,%.2f", ...)
L2Payload(stamp, r, p, y, alt, temp) ==
    Truncate(<<76, 50, 44>> \o FormatInt(stamp)
               \o <<44>> \o FormatFixed(r, 2)
               \o <<44>> \o FormatFixed(p, 2)
               \o <<44>> \o FormatFixed(y, 2)
               \o <<44>> \o FormatFixed(alt, 2)
               \o <<44>> \o FormatFixed(temp, 2), 200)

\* variant: the temperature is left out
L1Payload_no_temp(stamp, s, alt, temp) ==
    <<76, 49, 44>> \o FormatInt(stamp)
      \o <<44>> \o FormatFixed(s.ax, 3)
      \o <<44>> \o FormatFixed(s.ay, 3)
      \o <<44>> \o FormatFixed(s.az, 3)
      \o <<44>> \o FormatFixed(s.gx, 3)
      \o <<44>> \o FormatFixed(s.gy, 3)
      \o <<44>> \o FormatFixed(s.gz, 3)
      \o <<44>> \o FormatFixed(alt, 2)

\* sprintf(payload, "L1,%d,%.3f,%.3f,%.3f,%.3f,%.3f,%.3f,%.2f,%.2f", ...)
L1Payload(stamp, s, alt, temp) ==
    <<76, 49, 44>> \o FormatInt(stamp)
      \o <<44>> \o FormatFixed(s.ax, 3)
      \o <<44>> \o FormatFixed(s.ay, 3)
      \o <<44>> \o FormatFixed(s.az, 3)
      \o <<44>> \o FormatFixed(s.gx, 3)
      \o <<44>> \o FormatFixed(s.gy, 3)
      \o <<44>> \o FormatFixed(s.gz, 3)
      \o <<44>> \o FormatFixed(alt, 2)
      \o <<44>> \o FormatFixed(temp, 2)

\* capacity of stdout's buffer
StdoutBufSize == 4 * 1024

\* printf of bytes ending in a newline: <<buffer, descriptor>> afterwards.  A
\* line-buffered stream writes at the newline; a fully buffered one writes
\* only what no longer fits
StdoutWrite(buf, out, bytes, lineBuffered) ==
    LET all == buf \o bytes
    IN IF lineBuffered THEN <<(<<>>), out \o all>>
       ELSE IF Len(all) > StdoutBufSize
       THEN <<SubSeq(all, StdoutBufSize + 1, Len(all)), out \o SubSeq(all, 1, StdoutBufSize)>>
       ELSE <<all, out>>

\* what becomes of a write(2) of stdout's bytes when the descriptor is in state s:
\* "ok"; "killed" when the reader of the pipe is gone and SIGPIPE has its default
\* action; "error" when write returns -1 (EPIPE with SIGPIPE ignored, ENOSPC, EIO)
WriteOutcome(s, sig) ==
    IF s = "open" THEN "ok"
    ELSE IF s = "epipe" /\ sig = "default" THEN "killed"
    ELSE "error"

\* printf on stdout: <<buffer, descriptor, outcome>>.  write is called only when
\* the buffering says so; a write that fails leaves the descriptor as it was, and
\* the stream drops the bytes it held and sets its error indicator
StdoutPut(buf, out, bytes, lineBuffered, s, sig) ==
    LET w == StdoutWrite(buf, out, bytes, lineBuffered)
    IN IF w[2] = out \/ s = "open" THEN <<w[1], w[2], "ok">>
       ELSE <<(<<>>), out, WriteOutcome(s, sig)>>

\* fflush(stdout): <<buffer, descriptor, outcome>>
StdoutFlush(buf, out, s, sig) ==
    IF buf = <<>> \/ s = "open" THEN <<(<<>>), out \o buf, "ok">>
    ELSE <<(<<>>), out, WriteOutcome(s, sig)>>

(***************************************************************************)
(* The receiver's contract (the receiving scripts are not part of the      *)
(* sources; modelled from the protocol description)                        *)
(***************************************************************************)

\* the pieces of w that end just before the positions in ends, each starting
\* after the nearest earlier position in cuts
Pieces(w, cuts, ends) ==
    LET nth(k) == CHOOSE e \in ends : Cardinality({j \in ends : j <= e}) = k
        from(e) == IF \E j \in cuts : j < e
                   THEN 1 + (CHOOSE j \in cuts : j < e /\ \A i \in cuts : i < e => i <= j)
                   ELSE 1
    IN [k \in 1..Cardinality(ends) |-> SubSeq(w, from(nth(k)), nth(k) - 1)]

\* the lines of a byte stream: cut at every newline, a last unterminated line kept
SplitLines(w) ==
    LET nl == {i \in 1..Len(w) : w[i] = 10}
    IN Pieces(w, nl, nl \cup (IF Len(w) > 0 /\ w[Len(w)] # 10 THEN {Len(w) + 1} ELSE {}))

HexValue(c) ==
    IF c >= 48 /\ c <= 57 THEN c - 48
    ELSE IF c >= 65 /\ c <= 70 THEN c - 55
    ELSE IF c >= 97 /\ c <= 102 THEN c - 87
    ELSE -1

RECURSIVE ParseHexFrom(_, _, _)
ParseHexFrom(s, i, acc) ==
    IF i > Len(s) THEN acc
    ELSE IF HexValue(s[i]) < 0 \/ acc >= 1048576 THEN -1
    ELSE ParseHexFrom(s, i + 1, acc * 16 + HexValue(s[i]))

\* the number a hexadecimal text denotes, -1 when it is not one
ParseHex(s) == IF s = <<>> THEN -1 ELSE ParseHexFrom(s, 1, 0)

StarPositions(l) == {k \in 1..Len(l) : l[k] = 42}

Corrupt == [status |-> "corrupt", payload |-> <<>>, sent |-> -1, computed |-> -1]

\* one received line: '$' starts the frame, '*' starts the checksum; rule says
\* which '*' the receiver takes when the line holds several
DecodeLine(l, rule, m, signed) ==
    IF l = <<>> \/ l[1] # 36 \/ StarPositions(l) = {} THEN Corrupt
    ELSE LET k == IF rule = "first"
                  THEN CHOOSE x \in StarPositions(l) : \A y \in StarPositions(l) : x <= y
                  ELSE CHOOSE x \in StarPositions(l) : \A y \in StarPositions(l) : x >= y
             p == SubSeq(l, 2, k - 1)
             sent == ParseHex(SubSeq(l, k + 1, Len(l)))
             computed == IF m = "XOR" THEN calculate_checksum(p, signed)
                         ELSE crc16_ccitt(p, signed)
         IN IF sent < 0 THEN Corrupt
            ELSE [status |-> IF sent = computed THEN "ok" ELSE "corrupt",
                  payload |-> p, sent |-> sent, computed |-> computed]

Receiver(w, rule, m, signed) ==
    LET ls == SplitLines(w)
    IN [i \in 1..Len(ls) |-> DecodeLine(ls[i], rule, m, signed)]

(***************************************************************************)
(* Checksum and framing harness: the checksum functions applied to         *)
(* arbitrary strings, the frame put on the wire, at most one payload bit   *)
(* flipped by the channel, the line decoded                                *)
(***************************************************************************)

\* longest string built from SampleBytes
MaxPayloadLen == 2

SampleBytes == {1, 36, 42, 44, 46, 65, 128, 255}

RECURSIVE StringsUpTo(_, _)
StringsUpTo(S, n) ==
    IF n = 0 THEN {<<>>}
    ELSE LET shorter == StringsUpTo(S, n - 1)
         IN shorter \cup {Append(s, b) : s \in {x \in shorter : Len(x) = n - 1}, b \in S}

\* "123456789", "AB", and a payload of each transmitter's shape
KnownStrings ==
    { <<49, 50, 51, 52, 53, 54, 55, 56, 57>>,
      <<65, 66>>,
      <<76, 50, 44, 53, 48, 44, 48, 46, 53, 55>>,
      <<76, 49, 44, 48, 44, 45, 49, 46, 52>> }

PayloadInputs ==
    StringsUpTo(SampleBytes, MaxPayloadLen)
      \cup {<<b>> : b \in 1..255}
      \cup {<<b, 10>> : b \in {10, 65}}
      \cup KnownStrings

\* the filter untouched: the initialisers of q0..q3, no sample read
AhrsIdle ==
    /\ q0 = One /\ q1 = Zero(0) /\ q2 = Zero(0) /\ q3 = Zero(0)
    /\ imu = ZeroSample
    /\ dtArg = LOOP_DT_SEC
    /\ t = 0
    /\ pc = "off"

\* no transmitter running
TxIdle ==
    /\ prog = "none" /\ tty = FALSE
    /\ sink = "open" /\ sigpipe = "default" /\ wfailed = FALSE
    /\ now = <<0, 0>> /\ boot_time = <<0, 0>>
    /\ roll = Zero(0) /\ pitch = Zero(0) /\ yaw = Zero(0)
    /\ altitude = Zero(0) /\ temperature = Zero(0)
    /\ ts = 0
    /\ payload = <<>> /\ frame = <<>> /\ obuf = <<>> /\ wire = <<>>

InitChk ==
    /\ charSigned \in BOOLEAN
    /\ mode \in {"XOR", "CRC16"}
    /\ data \in PayloadInputs
    /\ pos = 0
    /\ crc = 65535
    /\ chk = 0
    /\ line = <<>>
    /\ flipped = <<>>
    /\ rx = <<>>
    /\ cpc = "sum"
    /\ AhrsIdle
    /\ TxIdle

\* one iteration of crc16_ccitt's while loop
Crc16Loop ==
    /\ cpc = "sum" /\ mode = "CRC16" /\ pos < Len(data)
    /\ crc' = crc16_byte(crc, data[pos + 1], charSigned)
    /\ pos' = pos + 1
    /\ UNCHANGED <<charSigned, mode, data, chk, line, flipped, rx, cpc>>
    /\ UNCHANGED <<ahrsVars, txVars>>

\* one iteration of calculate_checksum's while loop
ChecksumLoop ==
    /\ cpc = "sum" /\ mode = "XOR" /\ pos < Len(data)
    /\ chk' = checksum_byte(chk, data[pos + 1], charSigned)
    /\ pos' = pos + 1
    /\ UNCHANGED <<charSigned, mode, data, crc, line, flipped, rx, cpc>>
    /\ UNCHANGED <<ahrsVars, txVars>>

\* the loop meets the terminating NUL and the function returns
ChecksumReturn ==
    /\ cpc = "sum" /\ pos = Len(data)
    /\ cpc' = "frame"
    /\ UNCHANGED <<charSigned, mode, data, pos, crc, chk, line, flipped, rx>>
    /\ UNCHANGED <<ahrsVars, txVars>>

\* the frame is formatted and written
WriteFrame ==
    /\ cpc = "frame"
    /\ line' = IF mode = "XOR" THEN FrameL1(data, chk) ELSE FrameL2(data, crc)
    /\ cpc' = "wire"
    /\ UNCHANGED <<charSigned, mode, data, pos, crc, chk, flipped, rx>>
    /\ UNCHANGED <<ahrsVars, txVars>>

\* the channel flips bit k of payload byte i
FlipBit ==
    /\ cpc = "wire" /\ flipped = <<>>
    /\ \E i \in 1..Len(data), k \in 0..7 :
          /\ line' = [line EXCEPT ![1 + i] = BitXor(line[1 + i], Pow2(k))]
          /\ flipped' = <<i, k>>
    /\ UNCHANGED <<charSigned, mode, data, pos, crc, chk, rx, cpc>>
    /\ UNCHANGED <<ahrsVars, txVars>>

\* the receiver reads the stream and decodes each line
Receive ==
    /\ cpc = "wire"
    /\ \E rule \in {"first", "last"} : rx' = Receiver(line, rule, mode, FALSE)
    /\ cpc' = "done"
    /\ UNCHANGED <<charSigned, mode, data, pos, crc, chk, line, flipped>>
    /\ UNCHANGED <<ahrsVars, txVars>>

NextChk == Crc16Loop \/ ChecksumLoop \/ ChecksumReturn \/ WriteFrame \/ FlipBit \/ Receive

SpecChk == InitChk /\ [][NextChk]_vars

(***************************************************************************)
(* The Level-1 checksum on a channel that reorders: calculate_checksum     *)
(* applied to arbitrary strings, the frame put on the wire, two payload    *)
(* bytes exchanged by the channel, the line decoded                        *)
(***************************************************************************)

\* the payload bytes of the frame on the wire
WirePayload == SubSeq(line, 2, Len(data) + 1)

InitSwap == InitChk /\ mode = "XOR"

\* the channel exchanges payload bytes i and j of a frame it has not touched
SwapBytes ==
    /\ cpc = "wire" /\ mode = "XOR" /\ WirePayload = data
    /\ \E i, j \in 1..Len(data) :
          /\ i < j /\ data[i] # data[j]
          /\ line' = [line EXCEPT ![1 + i] = line[1 + j], ![1 + j] = line[1 + i]]
    /\ UNCHANGED <<charSigned, mode, data, pos, crc, chk, flipped, rx, cpc>>
    /\ UNCHANGED <<ahrsVars, txVars>>

NextSwap == ChecksumLoop \/ ChecksumReturn \/ WriteFrame \/ SwapBytes \/ Receive

SpecSwap == InitSwap /\ [][NextSwap]_vars

(***************************************************************************)
(* madgwick_update under a driver that feeds it arbitrary samples and dt   *)
(***************************************************************************)

MaxUpdates == 2

\* the checksum harness at rest
ChkIdle ==
    /\ charSigned = FALSE /\ mode = "CRC16" /\ data = <<>> /\ pos = 0
    /\ crc = 65535 /\ chk = 0 /\ line = <<>> /\ flipped = <<>> /\ rx = <<>>
    /\ cpc = "off"

\* accelerometer readings (m/s^2): none at all, gravity (0, 0, 9.81), a tilted
\* (0.6, -0.3, 9.0), and (1e-30, 0, 0)
AccelInputs ==
    { <<Zero(0), Zero(0), Zero(0)>>,
      <<Zero(0), Zero(0), F981>>,
      <<F06, FNeg(F03), F9>>,
      <<F1em30, Zero(0), Zero(0)>> }

\* magnetometer readings: none at all (with a negative zero), (0.3, 0, 0.5),
\* (0.28, 0.02, 0.52), and (0, -1e-30, 0)
MagInputs ==
    { <<Zero(0), Zero(1), Zero(0)>>,
      <<F03, Zero(0), F05>>,
      <<F028, F002, F052>>,
      <<Zero(0), FNeg(F1em30), Zero(0)>> }

\* gyroscope rates (deg/s): (0,0,10), (2,1.5,12), (-90,45,300), (0,0,1e30)
GyroInputs ==
    { <<Zero(0), Zero(0), F10>>,
      <<F2, F15, F12>>,
      <<FNeg(F90), F45, F300>>,
      <<Zero(0), Zero(0), F1e30>> }

\* step lengths (s): 0.05 and 1
DtInputs == { LOOP_DT_SEC, One }

\* the four statics take the values the call leaves behind
StoreQ(Q) == q0' = Q[1] /\ q1' = Q[2] /\ q2' = Q[3] /\ q3' = Q[4]

InitFilter ==
    /\ ChkIdle
    /\ q0 = One /\ q1 = Zero(0) /\ q2 = Zero(0) /\ q3 = Zero(0)
    /\ imu = ZeroSample
    /\ dtArg = LOOP_DT_SEC
    /\ t = 0
    /\ pc = "feed"
    /\ TxIdle

\* the driver picks the arguments of the next call
FeedSample ==
    /\ pc = "feed" /\ t < MaxUpdates
    /\ \E a \in AccelInputs, g \in GyroInputs, m \in MagInputs : imu' = Sample(a, g, m)
    /\ dtArg' \in DtInputs
    /\ pc' = "call"
    /\ UNCHANGED <<q0, q1, q2, q3, t>>
    /\ UNCHANGED <<chkVars, txVars>>

\* madgwick_update(&imu, dt), entry to return
CallUpdate ==
    /\ pc = "call"
    /\ StoreQ(madgwick_update(<<q0, q1, q2, q3>>, imu, dtArg))
    /\ t' = t + 1
    /\ pc' = "feed"
    /\ UNCHANGED <<imu, dtArg>>
    /\ UNCHANGED <<chkVars, txVars>>

NextFilter == FeedSample \/ CallUpdate

SpecFilter == InitFilter /\ [][NextFilter]_vars

(***************************************************************************)
(* The two transmitters: main of the Level-2 AHRS transmitter and main of  *)
(* the Level-1 transmitter, one action per statement group of the loop     *)
(***************************************************************************)

MaxTicks == 2

\* samples imu_read can return: each field at the low end, inside, and at the
\* high end of the range its formula spans for small t
ImuReadings ==
    { Sample(<<Fin(1, 13421773, -28), Fin(0, 9227469, -24), Fin(0, 10202644, -20)>>,
             <<Fin(0, 15099494, -23), Fin(0, 10905190, -23), Fin(0, 12268339, -20)>>,
             <<Fin(0, 9395241, -25), Fin(1, 10737418, -29), Fin(0, 16106127, -25)>>),
      Sample(<<Fin(0, 0, -149), Fin(0, 10066330, -24), Fin(0, 10286531, -20)>>,
             <<Fin(0, 8388608, -22), Fin(0, 13421773, -23), Fin(0, 12373197, -20)>>,
             <<Fin(0, 10066330, -25), Fin(0, 0, -149), Fin(0, 8388608, -24)>>),
      Sample(<<Fin(0, 10905190, -24), Fin(0, 10905190, -24), Fin(0, 10370417, -20)>>,
             <<Fin(0, 9227469, -22), Fin(0, 14260634, -23), Fin(0, 12897485, -20)>>,
             <<Fin(0, 10737418, -25), Fin(0, 10737418, -29), Fin(0, 8724152, -24)>>) }

\* values the Level-1 simulate_* functions can return: ax..gz in the first
\* two vectors, <<alt, temp>> in the third
L1Readings ==
    { Sample(<<Fin(1, 13743895, -35), Fin(0, 14495515, -25), Fin(0, 10286531, -20)>>,
             <<Fin(1, 13631488, -22), Fin(0, 14260634, -22), Fin(1, 10905190, -19)>>,
             <<Fin(0, 13109821, -17), Fin(0, 15728640, -19), Fin(0, 0, -149)>>),
      Sample(<<Fin(0, 10485760, -23), Fin(1, 9646899, -23), Fin(0, 10370417, -20)>>,
             <<Fin(0, 0, -149), Fin(1, 8589935, -34), Fin(0, 10905190, -19)>>,
             <<Fin(0, 13041664, -17), Fin(0, 15723397, -19), Fin(0, 0, -149)>>) }

\* readings of the clock at boot
BootTimes == { <<1000, 0>>, <<1000, 999500>> }

\* microseconds by which a tick outlasts the 50000 of usleep
SleepJitter == { 0, 1200 }

\* the checksum harness at rest, its two registers aside
ChkRest == <<charSigned, mode, data, pos, line, flipped, rx, cpc>>

Init ==
    /\ charSigned \in BOOLEAN
    /\ mode = "CRC16" /\ data = <<>> /\ pos = 0
    /\ crc = 65535 /\ chk = 0 /\ line = <<>> /\ flipped = <<>> /\ rx = <<>>
    /\ cpc = "off"
    /\ q0 = One /\ q1 = Zero(0) /\ q2 = Zero(0) /\ q3 = Zero(0)
    /\ imu = ZeroSample
    /\ dtArg = LOOP_DT_SEC
    /\ t = 0
    /\ pc = "read"
    /\ prog \in {"L1", "L2"}
    /\ tty \in BOOLEAN
    /\ sink = "open" /\ wfailed = FALSE
    /\ sigpipe \in {"default", "ignored"}
    /\ now \in BootTimes
    /\ boot_time = now
    /\ roll = Zero(0) /\ pitch = Zero(0) /\ yaw = Zero(0)
    /\ altitude = Zero(0)
    /\ temperature = IF prog = "L1" THEN F30 ELSE Zero(0)
    /\ ts = 0
    /\ payload = <<>> /\ frame = <<>> /\ obuf = <<>> /\ wire = <<>>

\* the three out-parameters take the angles ahrs_get_euler computed
StoreEuler(e) == roll' = e[1] /\ pitch' = e[2] /\ yaw' = e[3]

\* imu_read(&imu, t)
L2ImuRead ==
    /\ prog = "L2" /\ pc = "read" /\ t < MaxTicks
    /\ imu' \in ImuReadings
    /\ pc' = "update"
    /\ UNCHANGED <<q0, q1, q2, q3, dtArg, t>>
    /\ UNCHANGED <<chkVars, txVars>>

\* madgwick_update(&imu, LOOP_DT_SEC)
L2Update ==
    /\ prog = "L2" /\ pc = "update"
    /\ StoreQ(madgwick_update(<<q0, q1, q2, q3>>, imu, LOOP_DT_SEC))
    /\ pc' = "euler"
    /\ UNCHANGED <<imu, dtArg, t>>
    /\ UNCHANGED <<chkVars, txVars>>

\* ahrs_get_euler(&roll, &pitch, &yaw)
L2GetEuler ==
    /\ prog = "L2" /\ pc = "euler"
    /\ StoreEuler(ahrs_get_euler(<<q0, q1, q2, q3>>))
    /\ pc' = "assemble"
    /\ UNCHANGED <<q0, q1, q2, q3, imu, dtArg, t>>
    /\ UNCHANGED <<prog, tty, sink, sigpipe, wfailed, now, boot_time, altitude, temperature, ts, payload, frame, obuf, wire>>
    /\ UNCHANGED chkVars

\* altitude, temperature, ts = millis_since(&boot_time), snprintf(payload, ...)
L2Assemble ==
    /\ prog = "L2" /\ pc = "assemble"
    /\ altitude' = FAdd(F100, FMul(F005, FromInt(t)))
    /\ temperature' = F30
    /\ ts' = millis_since(boot_time, now)
    /\ payload' = L2Payload(ts', roll, pitch, yaw, altitude', temperature')
    /\ pc' = "encode"
    /\ UNCHANGED <<q0, q1, q2, q3, imu, dtArg, t>>
    /\ UNCHANGED <<prog, tty, sink, sigpipe, wfailed, now, boot_time, roll, pitch, yaw, frame, obuf, wire>>
    /\ UNCHANGED chkVars

\* crc = crc16_ccitt(payload)
L2Encode ==
    /\ prog = "L2" /\ pc = "encode"
    /\ crc' = crc16_ccitt(payload, charSigned)
    /\ pc' = "write"
    /\ UNCHANGED <<q0, q1, q2, q3, imu, dtArg, t>>
    /\ UNCHANGED <<ChkRest, chk, txVars>>

\* printf("$%s*%04X\n", payload, crc); its return value is not looked at
L2Printf ==
    /\ prog = "L2" /\ pc = "write"
    /\ LET w == StdoutPut(obuf, wire, FrameL2(payload, crc), tty, sink, sigpipe)
       IN /\ obuf' = w[1] /\ wire' = w[2]
          /\ wfailed' = (wfailed \/ w[3] # "ok")
          /\ pc' = IF w[3] = "killed" THEN "killed" ELSE "flush"
    /\ UNCHANGED <<q0, q1, q2, q3, imu, dtArg, t>>
    /\ UNCHANGED <<prog, tty, sink, sigpipe, now, boot_time, roll, pitch, yaw, altitude, temperature, ts, payload, frame>>
    /\ UNCHANGED chkVars

\* fflush(stdout); its return value is not looked at
L2Fflush ==
    /\ prog = "L2" /\ pc = "flush"
    /\ LET w == StdoutFlush(obuf, wire, sink, sigpipe)
       IN /\ obuf' = w[1] /\ wire' = w[2]
          /\ wfailed' = (wfailed \/ w[3] # "ok")
          /\ pc' = IF w[3] = "killed" THEN "killed" ELSE "sleep"
    /\ UNCHANGED <<q0, q1, q2, q3, imu, dtArg, t>>
    /\ UNCHANGED <<prog, tty, sink, sigpipe, now, boot_time, roll, pitch, yaw, altitude, temperature, ts, payload, frame>>
    /\ UNCHANGED chkVars

\* ax = simulate_accel_x(t) ... temp = simulate_temperature(t, temp)
L1Simulate ==
    /\ prog = "L1" /\ pc = "read" /\ t < MaxTicks
    /\ \E r \in L1Readings :
          /\ imu' = Sample(<<r.ax, r.ay, r.az>>, <<r.gx, r.gy, r.gz>>, <<Zero(0), Zero(0), Zero(0)>>)
          /\ altitude' = r.mx
          /\ temperature' = r.my
    /\ pc' = "assemble"
    /\ UNCHANGED <<q0, q1, q2, q3, dtArg, t>>
    /\ UNCHANGED <<prog, tty, sink, sigpipe, wfailed, now, boot_time, roll, pitch, yaw, ts, payload, frame, obuf, wire>>
    /\ UNCHANGED chkVars

\* sprintf(payload, "L1,%d,...", t * 50, ax, ay, az, gx, gy, gz, alt, temp)
L1Sprintf ==
    /\ prog = "L1" /\ pc = "assemble"
    /\ payload' = L1Payload(t * 50, imu, altitude, temperature)
    /\ pc' = "encode"
    /\ UNCHANGED <<q0, q1, q2, q3, imu, dtArg, t>>
    /\ UNCHANGED <<prog, tty, sink, sigpipe, wfailed, now, boot_time, roll, pitch, yaw, altitude, temperature, ts, frame, obuf, wire>>
    /\ UNCHANGED chkVars

\* chk = calculate_checksum(payload)
L1Checksum ==
    /\ prog = "L1" /\ pc = "encode"
    /\ chk' = calculate_checksum(payload, charSigned)
    /\ pc' = "frame"
    /\ UNCHANGED <<q0, q1, q2, q3, imu, dtArg, t>>
    /\ UNCHANGED <<ChkRest, crc, txVars>>

\* sprintf(frame, "$%s*%02X", payload, chk)
L1Frame ==
    /\ prog = "L1" /\ pc = "frame"
    /\ frame' = SubSeq(FrameL1(payload, chk), 1, Len(payload) + 4)
    /\ pc' = "write"
    /\ UNCHANGED <<q0, q1, q2, q3, imu, dtArg, t>>
    /\ UNCHANGED <<prog, tty, sink, sigpipe, wfailed, now, boot_time, roll, pitch, yaw, altitude, temperature, ts, payload, obuf, wire>>
    /\ UNCHANGED chkVars

\* printf("%s\n", frame); nothing flushes stdout before the sleep
L1Printf ==
    /\ prog = "L1" /\ pc = "write"
    /\ LET w == StdoutPut(obuf, wire, frame \o <<10>>, tty, sink, sigpipe)
       IN /\ obuf' = w[1] /\ wire' = w[2]
          /\ wfailed' = (wfailed \/ w[3] # "ok")
          /\ pc' = IF w[3] = "killed" THEN "killed" ELSE "sleep"
    /\ UNCHANGED <<q0, q1, q2, q3, imu, dtArg, t>>
    /\ UNCHANGED <<prog, tty, sink, sigpipe, now, boot_time, roll, pitch, yaw, altitude, temperature, ts, payload, frame>>
    /\ UNCHANGED chkVars

\* variant: the counter is stepped by two
Usleep_by_two ==
    /\ pc = "sleep"
    /\ \E j \in SleepJitter : now' = ClockAfter(now, 50000 + j)
    /\ t' = t + 2
    /\ pc' = "read"
    /\ UNCHANGED <<q0, q1, q2, q3, imu, dtArg>>
    /\ UNCHANGED <<prog, tty, sink, sigpipe, wfailed, boot_time, roll, pitch, yaw, altitude, temperature, ts, payload, frame, obuf, wire>>
    /\ UNCHANGED chkVars

\* usleep(50000); t++ (both transmitters)
Usleep ==
    /\ pc = "sleep"
    /\ \E j \in SleepJitter : now' = ClockAfter(now, 50000 + j)
    /\ t' = t + 1
    /\ pc' = "read"
    /\ UNCHANGED <<q0, q1, q2, q3, imu, dtArg>>
    /\ UNCHANGED <<prog, tty, sink, sigpipe, wfailed, boot_time, roll, pitch, yaw, altitude, temperature, ts, payload, frame, obuf, wire>>
    /\ UNCHANGED chkVars

Next ==
    \/ L2ImuRead \/ L2Update \/ L2GetEuler \/ L2Assemble \/ L2Encode \/ L2Printf \/ L2Fflush
    \/ L1Simulate \/ L1Sprintf \/ L1Checksum \/ L1Frame \/ L1Printf
    \/ Usleep

Spec == Init /\ [][Next]_vars

\* the loop has a statement to run: the process is alive and the bound on
\* ticks is not reached.  This is when Next is enabled
Running == pc # "killed" /\ (pc = "read" => t < MaxTicks)

\* control moves on from the statement at pc
Advance == Running /\ \E p \in {"read", "update", "euler", "assemble", "encode", "frame", "write", "flush", "sleep", "killed"} \ {pc} : pc' = p

\* the process is one thread that keeps being scheduled: a statement that can
\* run does run, printf returns, and usleep returns.  Every step of Next moves
\* pc and no other step does, so this is weak fairness of Next
SpecLive == Init /\ [][Next]_vars /\ WF_pc(Advance)

\* the environment of the loop: the reader of the pipe goes away (a later write
\* fails with EPIPE and raises SIGPIPE), or the device behind stdout starts to
\* refuse writes (ENOSPC, EIO).  The program meets the descriptor only when it
\* writes, so the change is taken at the top of a tick
SinkBreaks ==
    /\ pc = "read" /\ t < MaxTicks /\ sink = "open"
    /\ sink' \in (IF tty THEN {"error"} ELSE {"epipe", "error"})
    /\ UNCHANGED <<chkVars, ahrsVars>>
    /\ UNCHANGED <<prog, tty, sigpipe, wfailed, now, boot_time, roll, pitch, yaw, altitude, temperature, ts, payload, frame, obuf, wire>>

NextIO == Next \/ SinkBreaks

\* the two loops with an output that can fail
SpecIO == Init /\ [][NextIO]_vars

(***************************************************************************)
(* The Level-2 loop on a sensor source other than the simulation: the      *)
(* sample imu_read leaves in imu may be any sample, among them those that  *)
(* fail a norm check of madgwick_update                                    *)
(***************************************************************************)

\* samples with a gyroscope reading and a zero accelerometer vector, a zero
\* magnetometer vector, or an accelerometer vector whose squares underflow
DegenerateReadings ==
    { Sample(<<Zero(0), Zero(0), Zero(0)>>,
             <<Fin(0, 15099494, -23), Fin(0, 10905190, -23), Fin(0, 12268339, -20)>>,
             <<Fin(0, 9395241, -25), Fin(1, 10737418, -29), Fin(0, 16106127, -25)>>),
      Sample(<<Fin(0, 10905190, -24), Fin(0, 10905190, -24), Fin(0, 10370417, -20)>>,
             <<Fin(0, 9227469, -22), Fin(0, 14260634, -23), Fin(0, 12897485, -20)>>,
             <<Zero(0), Zero(1), Zero(0)>>),
      Sample(<<F1em30, Zero(0), Zero(0)>>,
             <<Fin(0, 8388608, -22), Fin(0, 13421773, -23), Fin(0, 12373197, -20)>>,
             <<Fin(0, 10066330, -25), Fin(0, 0, -149), Fin(0, 8388608, -24)>>) }

\* stdout stays writable here, so the disposition of SIGPIPE plays no part
InitInjected == Init /\ prog = "L2" /\ sigpipe = "default"

\* imu_read(&imu, t) with the sensor source injected
SensorRead ==
    /\ prog = "L2" /\ pc = "read" /\ t < MaxTicks
    /\ imu' \in ImuReadings \cup DegenerateReadings
    /\ pc' = "update"
    /\ UNCHANGED <<q0, q1, q2, q3, dtArg, t>>
    /\ UNCHANGED <<chkVars, txVars>>

NextInjected ==
    \/ SensorRead \/ L2Update \/ L2GetEuler \/ L2Assemble \/ L2Encode \/ L2Printf \/ L2Fflush
    \/ Usleep

SpecInjected == InitInjected /\ [][NextInjected]_vars

(***************************************************************************)
(* The constant-rate scenario: from the identity quaternion, the sample    *)
(* with gyroscope (0, 0, 10) deg/s goes to madgwick_update with            *)
(* dt = LOOP_DT_SEC and ahrs_get_euler is read after each call             *)
(***************************************************************************)

ScenarioTicks == 20

\* accelerometer and magnetometer vectors that pass the norm checks
SteadyAccel == { <<Zero(0), Zero(0), F981>>, <<F06, FNeg(F03), F9>> }

SteadyMag == { <<F03, Zero(0), F05>>, <<F028, F002, F052>> }

\* the angles read back before the first update
AnglesAre(e) == roll = e[1] /\ pitch = e[2] /\ yaw = e[3]

InitScenario ==
    /\ ChkIdle
    /\ q0 = One /\ q1 = Zero(0) /\ q2 = Zero(0) /\ q3 = Zero(0)
    /\ imu = ZeroSample
    /\ dtArg = LOOP_DT_SEC
    /\ t = 0
    /\ pc = "tick"
    /\ prog = "none" /\ tty = FALSE
    /\ sink = "open" /\ sigpipe = "default" /\ wfailed = FALSE
    /\ now = <<0, 0>> /\ boot_time = <<0, 0>>
    /\ AnglesAre(ahrs_get_euler(<<One, Zero(0), Zero(0), Zero(0)>>))
    /\ altitude = Zero(0) /\ temperature = Zero(0)
    /\ ts = 0
    /\ payload = <<>> /\ frame = <<>> /\ obuf = <<>> /\ wire = <<>>

\* the sample of the tick: the constant rates, any vectors that pass the checks
ScenarioFeed ==
    /\ pc = "tick" /\ t < ScenarioTicks
    /\ \E a \in SteadyAccel, m \in SteadyMag : imu' = Sample(a, <<Zero(0), Zero(0), F10>>, m)
    /\ pc' = "run"
    /\ UNCHANGED <<q0, q1, q2, q3, dtArg, t>>
    /\ UNCHANGED <<chkVars, txVars>>

\* madgwick_update(&imu, LOOP_DT_SEC)
ScenarioUpdate ==
    /\ pc = "run"
    /\ StoreQ(madgwick_update(<<q0, q1, q2, q3>>, imu, dtArg))
    /\ pc' = "angles"
    /\ UNCHANGED <<imu, dtArg, t>>
    /\ UNCHANGED <<chkVars, txVars>>

\* ahrs_get_euler(&roll, &pitch, &yaw); the tick is over
ScenarioEuler ==
    /\ pc = "angles"
    /\ StoreEuler(ahrs_get_euler(<<q0, q1, q2, q3>>))
    /\ t' = t + 1
    /\ pc' = "tick"
    /\ UNCHANGED <<q0, q1, q2, q3, imu, dtArg>>
    /\ UNCHANGED <<prog, tty, sink, sigpipe, wfailed, now, boot_time, altitude, temperature, ts, payload, frame, obuf, wire>>
    /\ UNCHANGED chkVars

NextScenario == ScenarioFeed \/ ScenarioUpdate \/ ScenarioEuler

SpecScenario == InitScenario /\ [][NextScenario]_vars

(***************************************************************************)
(* Reference definitions the checksum claims are stated against            *)
(***************************************************************************)

\* a polynomial over GF(2) is the set of the exponents of its terms
PolyAdd(P, Q) == (P \ Q) \cup (Q \ P)

PolyDeg(P) == CHOOSE d \in P : \A e \in P : e <= d

\* x^16 + x^12 + x^5 + 1, the polynomial 0x1021 with its leading term
CcittPoly == {16, 12, 5, 0}

RECURSIVE PolyMod(_)
PolyMod(P) ==
    IF P = {} \/ PolyDeg(P) < 16 THEN P
    ELSE PolyMod(PolyAdd(P, {e + (PolyDeg(P) - 16) : e \in CcittPoly}))

\* the message, most significant bit of the first byte first, times x^16
MsgPoly(s) ==
    UNION {{16 + 8 * (Len(s) - i) + j : j \in {b \in 0..7 : (s[i] \div Pow2(b)) % 2 = 1}} :
           i \in 1..Len(s)}

\* the initial register 0xFFFF, ahead of the message
InitPoly(s) == {8 * Len(s) + k : k \in 0..15}

RECURSIVE PolyValue(_)
PolyValue(P) == IF P = {} THEN 0 ELSE Pow2(PolyDeg(P)) + PolyValue(P \ {PolyDeg(P)})

\* CRC16-CCITT: polynomial 0x1021, initial register 0xFFFF, no final XOR, MSB first
RefCrc16(s) == PolyValue(PolyMod(PolyAdd(MsgPoly(s), InitPoly(s))))

\* bit j of the XOR of the bytes is the parity of the bytes that have bit j set
RefXor8(s) ==
    LET odd(j) == Cardinality({i \in 1..Len(s) : (s[i] \div Pow2(j)) % 2 = 1}) % 2 = 1
    IN PolyValue({j \in 0..7 : odd(j)})

Consumed == SubSeq(data, 1, pos)

NoByte(s, b) == \A i \in 1..Len(s) : s[i] # b

TransmittedChecksum == IF mode = "XOR" THEN chk ELSE crc

(***************************************************************************)
(* Claims                                                                  *)
(***************************************************************************)

\* C1: for every payload string, bytes >= 0x80 included, crc16_ccitt returns the
\* CRC16-CCITT of the payload (polynomial 0x1021, initial register 0xFFFF, no final
\* XOR, MSB first), the register is within 0..0xFFFF after every byte, and
\* crc16_ccitt("123456789") = 0x29B1.
C1_Crc16IsCcitt ==
    mode = "CRC16" =>
        /\ crc \in 0..65535
        /\ (cpc = "sum" \/ cpc = "frame") => crc = RefCrc16(Consumed)
        /\ cpc = "frame" => crc16_ccitt(data, charSigned) = RefCrc16(data)
        /\ (cpc = "frame" /\ data = <<49, 50, 51, 52, 53, 54, 55, 56, 57>>) => crc = 10673

C1_Witness ==
    /\ mode = "CRC16" /\ charSigned /\ cpc = "frame"
    /\ data = <<128, 255>> /\ crc = RefCrc16(data)

\* C2: calculate_checksum returns the 8-bit running XOR of every byte of the payload,
\* starting from 0; the checksum of "AB" is 0x03 and that of the empty payload is 0.
C2_ChecksumIsXor ==
    mode = "XOR" =>
        /\ chk \in 0..255
        /\ (cpc = "sum" \/ cpc = "frame") => chk = RefXor8(Consumed)
        /\ cpc = "frame" => calculate_checksum(data, charSigned) = RefXor8(data)
        /\ (cpc = "frame" /\ data = <<65, 66>>) => chk = 3
        /\ (cpc = "frame" /\ data = <<>>) => chk = 0

C2_Witness ==
    /\ mode = "XOR" /\ cpc = "frame" /\ data = <<65, 66>> /\ chk = 3

RoundTrips ==
    /\ Len(rx) = 1
    /\ rx[1].payload = data
    /\ rx[1].sent = TransmittedChecksum
    /\ rx[1].computed = TransmittedChecksum

C8_SingleBitFlipCaught ==
    (cpc = "done" /\ flipped # <<>>) =>
        \A i \in 1..Len(rx) :
            /\ rx[i].status = "corrupt"
            /\ rx[i].sent < 0 \/ rx[i].sent # rx[i].computed

C8_Witness ==
    /\ cpc = "done" /\ flipped # <<>> /\ mode = "CRC16" /\ Len(data) = 9
    /\ Len(rx) = 1 /\ rx[1].sent = crc /\ rx[1].computed # crc

\* every component of the vector is a zero, of either sign
ZeroVector(x, y, z) == IsZero(x) /\ IsZero(y) /\ IsZero(z)

\* the accelerometer vector or the magnetometer vector has norm exactly zero
DegenerateSample(s) == ZeroVector(s.ax, s.ay, s.az) \/ ZeroVector(s.mx, s.my, s.mz)

\* C5: a call of madgwick_update whose sample has a zero accelerometer vector
\* or a zero magnetometer vector returns with q0..q3 exactly as they were,
\* whatever the gyroscope rates and dt are.
C5_DegenerateSampleIsNoOp ==
    [][(pc = "call" /\ DegenerateSample(imu)) => <<q0, q1, q2, q3>>' = <<q0, q1, q2, q3>>]_vars

\* a degenerate call has returned on a quaternion that earlier updates had
\* turned away from the identity, with a non-zero gyroscope rate in the sample
C5_Witness ==
    /\ pc = "feed" /\ t > 1
    /\ DegenerateSample(imu)
    /\ ~IsZero(imu.gz)
    /\ q0.k = "fin" /\ q0 # One /\ ~IsZero(q3)

\* x is a float within 2^-17 of 1.0
NearOne(x) ==
    /\ x.k = "fin" /\ x.s = 0 /\ x.m > 0
    /\ LET n == Normalized(x)
       IN \/ n[2] = -23 /\ n[1] - 8388608 <= 64
          \/ n[2] = -24 /\ 16777216 - n[1] <= 128

Stream == wire \o obuf

\* the comma-separated fields of s
CommaFields(s) ==
    LET cs == {i \in 1..Len(s) : s[i] = 44}
    IN Pieces(s, cs, cs \cup {Len(s) + 1})

IsUpperHex(c) == (c >= 48 /\ c <= 57) \/ (c >= 65 /\ c <= 70)

\* l is '$' + payload + '*' + n upper-case hex digits: its payload, else <<>>
FramePayload(l, n) ==
    IF /\ Len(l) >= n + 3
       /\ l[1] = 36
       /\ StarPositions(l) = {Len(l) - n}
       /\ \A i \in (Len(l) - n + 1)..Len(l) : IsUpperHex(l[i])
    THEN SubSeq(l, 2, Len(l) - n - 1)
    ELSE <<>>

\* the value of the last n characters of l as hexadecimal
FrameChecksum(l, n) == ParseHex(SubSeq(l, Len(l) - n + 1, Len(l)))

\* the payload has the tag and `count` non-empty comma-separated fields
PayloadShape(pl, tag, count) ==
    LET f == CommaFields(pl)
    IN Len(f) = count /\ f[1] = tag /\ \A k \in 1..count : f[k] # <<>>

\* every line of the stream is complete
Terminated(w) == w = <<>> \/ w[Len(w)] = 10

\* C3: every line the Level-2 transmitter has written is '$' + payload + '*' +
\* four upper-case hex digits + newline, the payload has the tag L2 and exactly
\* 7 comma-separated fields, and the hex digits are the CRC16 of the bytes
\* strictly between '$' and '*'.
C3_L2LineFormat ==
    (prog = "L2" /\ pc = "flush") =>
        /\ Terminated(Stream)
        /\ \A l \in {SplitLines(Stream)[k] : k \in 1..Len(SplitLines(Stream))} :
              LET pl == FramePayload(l, 4)
              IN /\ PayloadShape(pl, <<76, 50>>, 7)
                 /\ FrameChecksum(l, 4) = crc16_ccitt(pl, FALSE)

\* two frames have been written and the checksum of one needed zero padding
C3_Witness ==
    /\ prog = "L2" /\ pc = "flush" /\ t = 1
    /\ Len(SplitLines(Stream)) = 2
    /\ \E k \in 1..2 : LET l == SplitLines(Stream)[k] IN l[Len(l) - 3] = 48

\* C4: every line the Level-1 transmitter has written is '$' + payload + '*' +
\* two upper-case hex digits + newline, the payload has the tag L1 and exactly
\* 10 comma-separated fields, and the hex digits are the XOR of the bytes
\* strictly between '$' and '*'.
C4_L1LineFormat ==
    (prog = "L1" /\ pc = "sleep") =>
        /\ Terminated(Stream)
        /\ \A l \in {SplitLines(Stream)[k] : k \in 1..Len(SplitLines(Stream))} :
              LET pl == FramePayload(l, 2)
              IN /\ PayloadShape(pl, <<76, 49>>, 10)
                 /\ FrameChecksum(l, 2) = RefXor8(pl)

\* the second frame has been written, with negative values in it
C4_Witness ==
    /\ prog = "L1" /\ pc = "sleep" /\ t = 1
    /\ Len(SplitLines(Stream)) = 2
    /\ imu.ax.s = 1

\* C9: when a tick's sleep starts, in either transmitter, no byte of a frame
\* is still held in stdout's buffer.
C9_FlushedBeforeSleep == pc = "sleep" => obuf = <<>>

\* the fields roll, pitch, heading of a Level-2 line
FrameAngles(l) == LET f == CommaFields(FramePayload(l, 4)) IN <<f[3], f[4], f[5]>>

\* roll, pitch, yaw of the quaternion as %.2f prints them
AnglesOf(Q) == LET e == ahrs_get_euler(Q) IN <<FormatFixed(e[1], 2), FormatFixed(e[2], 2), FormatFixed(e[3], 2)>>

LastLine(w) == SplitLines(w)[Len(SplitLines(w))]

\* the steps of a Level-2 tick, each with the one that follows it
L2StepOrder ==
    { <<"read", "update">>, <<"update", "euler">>, <<"euler", "assemble">>,
      <<"assemble", "encode">>, <<"encode", "write">>, <<"write", "flush">>,
      <<"flush", "sleep">>, <<"sleep", "read">> }

\* C10: every step of the Level-2 loop is followed by the next one of the order
\* sample, update, Euler read-back, assembly, encoding, write, sleep; only the
\* sleep step ends the tick; only the update step changes the quaternion; and
\* the angles in the frame a tick writes are those of the quaternion as that
\* tick's update left it.
C10_TickOrderAndAngles ==
    [][prog = "L2" =>
          /\ <<pc, pc'>> \in L2StepOrder
          /\ t' = (IF pc = "sleep" THEN t + 1 ELSE t)
          /\ pc # "update" => <<q0, q1, q2, q3>>' = <<q0, q1, q2, q3>>
          /\ pc = "write" =>
                /\ Len(SplitLines(Stream')) = t + 1
                /\ FrameAngles(LastLine(Stream')) = AnglesOf(<<q0, q1, q2, q3>>)]_vars

\* the second tick has written its frame, and its heading differs from the
\* one of the first tick
C10_Witness ==
    /\ prog = "L2" /\ pc = "flush" /\ t = 1
    /\ Len(SplitLines(Stream)) = 2
    /\ FrameAngles(SplitLines(Stream)[2])[3] # FrameAngles(SplitLines(Stream)[1])[3]
    /\ FrameAngles(SplitLines(Stream)[2]) = AnglesOf(<<q0, q1, q2, q3>>)

\* whole milliseconds that lie between the clock readings start and tv
ElapsedMillis(start, tv) == ((tv[1] - start[1]) * 1000000 + (tv[2] - start[2])) \div 1000

\* the number a run of decimal digits, with or without a minus sign, writes
RECURSIVE ParseDecFrom(_, _, _)
ParseDecFrom(s, i, acc) ==
    IF i > Len(s) THEN acc ELSE ParseDecFrom(s, i + 1, 10 * acc + (s[i] - 48))

ParseInt(s) == IF s # <<>> /\ s[1] = 45 THEN -ParseDecFrom(s, 2, 0) ELSE ParseDecFrom(s, 1, 0)

\* the timestamp field of a payload
Stamp(pl) == ParseInt(CommaFields(pl)[2])

\* the timestamps of the lines of w, in the order written
Stamps(w, n) == [k \in 1..Len(SplitLines(w)) |-> Stamp(FramePayload(SplitLines(w)[k], n))]

\* C11: the timestamp of every frame, in both transmitters, is the number of whole
\* milliseconds elapsed between the clock reading at startup and the clock
\* reading when the frame is built, and the timestamps of successive frames never
\* decrease.
C11_StampIsElapsedMillis ==
    /\ pc \in {"encode", "frame", "write"} => Stamp(payload) = ElapsedMillis(boot_time, now)
    /\ LET st == Stamps(Stream, IF prog = "L1" THEN 2 ELSE 4)
       IN \A k \in 1..(Len(st) - 1) : st[k] <= st[k + 1]

\* C12: once a write of a frame to the output stream has failed, whatever the
\* failure, the transmitter loop is over: it does not come round to the top of
\* the loop for a further tick.
C12_WriteFailureEndsLoop == wfailed => pc # "read"

\* the gyroscope rates of sample s with accelerometer a and magnetometer m
WithAccelMag(s, a, m) == Sample(a, <<s.gx, s.gy, s.gz>>, m)

FLess(a, b) ==
    LET d == FSub(b, a)
    IN d.k # "nan" /\ d.s = 0 /\ (d.k = "inf" \/ d.m > 0)

\* 0.499f and 0.501f
F0499 == Fin(0, 16743662, -25)

F0501 == Fin(0, 8405385, -24)

\* 9.99f and 10.01f
F999 == Fin(0, 10475274, -20)

F1001 == Fin(0, 10496246, -20)

\* C14: in the constant-rate scenario (gyroscope (0, 0, 10) deg/s, dt = 0.05 s,
\* from the identity quaternion) the heading ahrs_get_euler returns after each
\* of the 20 updates is greater than the one before it, by 0.5 degrees to within
\* 0.001, and roll and pitch are zero.
C14_HeadingClimbsHalfDegreePerTick ==
    [][pc = "angles" =>
          /\ FLess(yaw, yaw')
          /\ FLess(F0499, FSub(yaw', yaw)) /\ FLess(FSub(yaw', yaw), F0501)
          /\ IsZero(roll') /\ IsZero(pitch')]_vars

\* the twentieth update is done and the heading stands at 10 degrees
C14_Witness ==
    /\ pc = "tick" /\ t = 20
    /\ imu.gz = F10 /\ IsZero(imu.gx) /\ IsZero(imu.gy) /\ ~ZeroNorm(imu)
    /\ FLess(F999, yaw) /\ FLess(yaw, F1001)

\* the steps of the loops that are not the call of madgwick_update: imu_read,
\* ahrs_get_euler, the assembly with millis_since and snprintf, crc16_ccitt,
\* printf, fflush, usleep, and the steps of the Level-1 loop
OtherSteps == {"read", "euler", "assemble", "encode", "frame", "write", "flush", "sleep"}

\* C15: q0..q3 are (1, 0, 0, 0) when main starts, and no step of the loop other
\* than the call of madgwick_update changes any of them.
C15_QuaternionChangedOnlyByUpdate ==
    /\ <<q0, q1, q2, q3>> = <<FromInt(1), Zero(0), Zero(0), Zero(0)>>
    /\ [][(pc \in OtherSteps) => <<q0, q1, q2, q3>>' = <<q0, q1, q2, q3>>]_vars

\* the second tick of the Level-2 loop has run every step after an update that
\* turned the quaternion away from the identity
C15_Witness ==
    /\ prog = "L2" /\ pc = "read" /\ t = 2
    /\ q0 # One /\ ~IsZero(q1) /\ ~IsZero(q2) /\ ~IsZero(q3)
    /\ Len(SplitLines(Stream)) = 2

\* the frames printf has been handed so far
Frames == Len(SplitLines(Stream))

Delimiters == {0, 10, 36, 42}

DelimiterFree(s) == \A i \in 1..Len(s) : s[i] \notin Delimiters

\* the number of checksum digits of the running transmitter's frame
ChecksumDigits == IF prog = "L2" THEN 4 ELSE 2

\* C18: in both transmitters the payload buffer never holds a '$', '*', newline
\* or NUL byte; and each line, when its printf has returned (it is then the last
\* line of the stream), ends the stream with its newline, has '$' as its first
\* byte and nowhere else, '*' exactly once, no NUL, the whole payload buffer of
\* the tick strictly between '$' and '*', and after '*' the hex digits of the
\* checksum (CRC16 in Level 2, XOR in Level 1) of all the bytes between '$' and
\* '*'.
C18_PayloadHasNoDelimiters ==
    /\ DelimiterFree(payload)
    /\ pc \in {"flush", "sleep"} =>
          /\ Terminated(Stream)
          /\ Len(SplitLines(Stream)) = t + 1
          /\ LET l == LastLine(Stream)
                 pl == FramePayload(l, ChecksumDigits)
             IN /\ {i \in 1..Len(l) : l[i] = 36} = {1}
                /\ Cardinality({i \in 1..Len(l) : l[i] = 42}) = 1
                /\ NoByte(l, 0)
                /\ pl = payload /\ pl # <<>> /\ DelimiterFree(pl)
                /\ Len(l) = Len(pl) + 2 + ChecksumDigits
                /\ FrameChecksum(l, ChecksumDigits) =
                      (IF prog = "L2" THEN crc16_ccitt(pl, charSigned)
                       ELSE calculate_checksum(pl, charSigned))

\* the second frame is out and its payload is not that of the first
C18_Witness ==
    /\ pc = "sleep" /\ t = 1
    /\ Len(SplitLines(Stream)) = 2
    /\ FramePayload(SplitLines(Stream)[2], ChecksumDigits) = payload
    /\ FramePayload(SplitLines(Stream)[1], ChecksumDigits) # payload

\* the longest prefix of a string that is taken through all its permutations
MaxPermuted == 5

\* s with its first k bytes in the order p, the rest in place
PermutePrefix(s, k, p) == [i \in 1..Len(s) |-> IF i <= k THEN s[p[i]] ELSE s[i]]

\* s with bytes i and j exchanged
Exchange(s, i, j) == [s EXCEPT ![i] = s[j], ![j] = s[i]]

\* s started at byte r + 1 and wrapped round
Rotate(s, r) == SubSeq(s, r + 1, Len(s)) \o SubSeq(s, 1, r)

\* reorderings of s: every permutation of a string of up to MaxPermuted bytes;
\* of a longer one every permutation of its first MaxPermuted bytes, every
\* exchange of two bytes and every rotation
Reorderings(s) ==
    LET k == IF Len(s) < MaxPermuted THEN Len(s) ELSE MaxPermuted
    IN {PermutePrefix(s, k, p) : p \in Permutations(1..k)}
         \cup {Exchange(s, i, j) : i, j \in 1..Len(s)}
         \cup {Rotate(s, r) : r \in 0..Len(s)}

\* C19: for every string, calculate_checksum returns for every reordering of its
\* bytes the value it returns for the string, with char signed and unsigned;
\* and a Level-1 frame of a payload without '*' and newline, two of whose
\* payload bytes the channel has exchanged or none, is decoded as one frame
\* with the payload as it arrived and passes the checksum comparison.
C19_ChecksumIgnoresByteOrder ==
    /\ (mode = "XOR" /\ cpc = "frame") =>
          /\ chk = calculate_checksum(data, charSigned)
          /\ \A r \in Reorderings(data) : calculate_checksum(r, charSigned) = chk
    /\ (mode = "XOR" /\ cpc = "done" /\ NoByte(data, 42) /\ NoByte(data, 10)) =>
          /\ Len(rx) = 1
          /\ rx[1].status = "ok"
          /\ rx[1].payload = WirePayload
          /\ rx[1].sent = chk /\ rx[1].computed = chk

\* the frame of "L1,0,-1.4" arrived with two different payload bytes exchanged
\* and was accepted
C19_Witness ==
    /\ mode = "XOR" /\ cpc = "done"
    /\ data = <<76, 49, 44, 48, 44, 45, 49, 46, 52>>
    /\ WirePayload # data
    /\ Len(rx) = 1 /\ rx[1].status = "ok" /\ rx[1].payload = WirePayload

\* C16: with stdout writable, in both transmitters: t is 0 at the start; the loop
\* body has no way out; t goes up by exactly 1 at the end of each tick and at no
\* other step; tick t hands exactly one frame to printf, so t frames precede it
\* and t + 1 exist once it has printed; and when n frames exist, n below the
\* bound on ticks, frame n + 1 is eventually written.
C16_LoopRunsOn ==
    /\ t = 0
    /\ [](pc \in OtherSteps \cup {"update"})
    /\ [](Frames = (IF pc \in {"flush", "sleep"} THEN t + 1 ELSE t))
    /\ [][t' = (IF pc = "sleep" THEN t + 1 ELSE t)]_vars
    /\ \A n \in 0..(MaxTicks - 1) : (Frames = n) ~> (Frames = n + 1)

\* both loops have come round twice: two frames each, t = 2
C16_Witness ==
    /\ pc = "read" /\ t = 2 /\ Frames = 2 /\ ~wfailed

====
